---- MODULE Spec2Model ----
(***************************************************************************)
(* A model of src/mcp_folder/pointblank_server.py: the session store with  *)
(* its two registries (loaded_dataframes, active_validators) and the five  *)
(* tools load_dataframe, create_validator, add_validation_step,            *)
(* interrogate_validator and get_validation_step_output.                   *)
(*                                                                         *)
(* The rule engine (pb.Validate and its methods) is not part of the        *)
(* source file; the operators of the section "Rule engine" follow the      *)
(* description the specification gives of it.                              *)
(***************************************************************************)
EXTENDS Integers, Sequences, FiniteSets, TLC

VARIABLES
    session,            \* "live" between startup and shutdown of app_lifespan
    loaded_dataframes,  \* AppContext.loaded_dataframes: df_id -> DataFrame
    active_validators,  \* AppContext.active_validators: validator_id -> Validate
    call,               \* the tool call handled last, with its arguments
    ret,                \* what that call returned or raised
    effects,            \* what that call did outside the registries, in order
    found               \* the pipeline that call named, as the call found it

vars == <<session, loaded_dataframes, active_validators, call, ret, effects, found>>

----------------------------------------------------------------------------
\* Bounds of the model.

\* A session holds at most this many objects (tables, pipelines and steps).
MaxSize == 4

----------------------------------------------------------------------------
\* Python values.

\* None, where a string is expected.
None == "<None>"

\* Truth value of an Optional[str]: None and "" are both false.
Truthy(s) == s # None /\ s # ""

\* A function with one more key (d[k] = v).
Put(d, k, v) == [x \in DOMAIN d \cup {k} |-> IF x = k THEN v ELSE d[x]]

\* The empty dict.
EmptyDict == [x \in {} |-> None]

\* Optional[...] of a value that is not a string: () for None, (x) for x.
NoneOpt == <<>>

Some(x) == <<x>>

IsSome(o) == o # <<>>

\* The elements of a list.
Range(q) == {q[i] : i \in DOMAIN q}

\* A raised exception: the Python class and the error kind it stands for.
Raise(exc, kind) == [ok |-> FALSE, exc |-> exc, kind |-> kind]

\* A returned value.
Return(v) == [ok |-> TRUE, value |-> v]

----------------------------------------------------------------------------
\* Paths. A path is its parent directory and its file name, the name split
\* at its last dot as pathlib does: ext is "" or starts with the dot.

MkPath(parent, stem, ext) == [parent |-> parent, stem |-> stem, ext |-> ext]

\* str.lower() on the extensions that occur.
Lower(s) ==
    CASE s = ".CSV" -> ".csv"
      [] s = ".XLSX" -> ".xlsx"
      [] s = ".XLS" -> ".xls"
      [] s = ".PARQUET" -> ".parquet"
      [] s = ".TXT" -> ".txt"
      [] OTHER -> s

\* Path.suffix: a name that starts with its only dot (".csv") has no suffix.
Suffix(p) == IF p.stem = "" THEN "" ELSE p.ext

\* str(path).lower().endswith(".csv")
EndsWithCsv(p) == Lower(p.ext) = ".csv"

\* The files of the environment that load_dataframe can be pointed at.
ExistingFiles ==
    { MkPath(".", "a", ".csv"), MkPath(".", "b", ".XLSX"),
      MkPath(".", "c", ".parquet"), MkPath(".", "notes", ".txt") }

InputPaths ==
    ExistingFiles \cup { MkPath(".", "missing", ".csv"), MkPath(".", "missing", ".txt") }

\* Path.exists()
Exists(p) == p \in ExistingFiles

\* What the format readers return: a table is the set of its rows, a row
\* the value of its one column "score".
FileRows(p) == IF p.stem = "a" THEN {1, 3} ELSE {3}

Columns == <<"score">>

----------------------------------------------------------------------------
\* Identifiers.

\* The values uuid.uuid4().hex[:8] can take (two of the 16^8).
Hex8 == {"00000000", "0000000a"}

\* The table identifiers of the model: a call names one of them, loaded or not.
TableIds == {"df_" \o h : h \in Hex8}

\* effective_df_id
EffectiveDfId(df_id, hex) == IF Truthy(df_id) THEN df_id ELSE "df_" \o hex

\* The draws of uuid4 a call with this identifier argument makes: none when
\* the caller supplies the identifier.
UuidDraws(id) == IF Truthy(id) THEN {"00000000"} ELSE Hex8

----------------------------------------------------------------------------
\* What a session holds: its tables, its pipelines and their steps.

SizeOf(dfs, vals) ==
    LET RECURSIVE Steps(_)
        Steps(S) == IF S = {} THEN 0
                    ELSE LET v == CHOOSE x \in S : TRUE
                         IN Len(vals[v].validation_info) + Steps(S \ {v})
    IN Cardinality(DOMAIN dfs) + Cardinality(DOMAIN vals) + Steps(DOMAIN vals)

----------------------------------------------------------------------------
\* Rule engine (pb.Thresholds, pb.Actions, pb.FinalActions, pb.Validate).

\* pb.Thresholds(**d): the keywords the constructor takes.
ThresholdsOk(d) == DOMAIN d \subseteq {"warning", "error", "critical"}

\* pb.Actions(**d)
ActionsOk(d) == DOMAIN d \subseteq {"warning", "error", "critical", "default"}

\* pb.FinalActions(**d)
FinalActionsOk(d) == DOMAIN d \subseteq {}

\* pb.Validate(**params): an empty pipeline, not interrogated.
Validate(params) ==
    [ params |-> params,
      validation_info |-> <<>>,
      time_processed |-> FALSE,
      results |-> <<>> ]

\* The keywords of the column-value methods (col_vals_lt, col_vals_gt, ...).
StepRequired == {"columns", "value"}

StepOptional == {"thresholds", "actions", "brief", "active"}

\* A validation method called with **params: TypeError when the keywords do
\* not fit the signature, another exception when a value is rejected.
StepCall(params) ==
    IF ~(StepRequired \subseteq DOMAIN params
         /\ DOMAIN params \subseteq StepRequired \cup StepOptional)
    THEN "TypeError"
    ELSE IF "thresholds" \in DOMAIN params /\ params.thresholds < 0
    THEN "ValueError"
    ELSE "ok"

\* The step a validation method appends to the pipeline.
StepOf(method, params) ==
    [assertion_type |-> method, column |-> params.columns, values |-> params.value]

AppendStep(validator, method, params) ==
    [validator EXCEPT !.validation_info = Append(@, StepOf(method, params))]

\* Whether a row passes a step.
Passes(row, step) ==
    CASE step.assertion_type = "col_vals_lt" -> row < step.values
      [] step.assertion_type = "col_vals_gt" -> row > step.values
      [] step.assertion_type = "col_vals_le" -> row <= step.values
      [] step.assertion_type = "col_vals_ge" -> row >= step.values
      [] step.assertion_type = "col_vals_eq" -> row = step.values
      [] step.assertion_type = "col_vals_ne" -> row # step.values
      [] OTHER -> TRUE

\* Validate.interrogate(): every accumulated step is evaluated against the
\* table; per step the counts and the rows that failed are recorded.
Interrogate(validator, df) ==
    [validator EXCEPT
        !.time_processed = TRUE,
        !.results = [i \in 1..Len(validator.validation_info) |->
            LET step == validator.validation_info[i]
                failed == {row \in df : ~Passes(row, step)}
            IN  [ step |-> step,
                  n_passed |-> Cardinality(df \ failed),
                  n_failed |-> Cardinality(failed),
                  extract |-> failed ]]]

\* Validate.get_json_report(): one entry per evaluated step.
GetJsonReport(validator) ==
    [i \in 1..Len(validator.results) |->
        [ i |-> i,
          assertion_type |-> validator.results[i].step.assertion_type,
          column |-> validator.results[i].step.column,
          values |-> validator.results[i].step.values,
          n_passed |-> validator.results[i].n_passed,
          n_failed |-> validator.results[i].n_failed ]]

\* Validate.get_data_extracts(i=i, frame=True): the rows recorded for the step
\* with insertion index i (0-based), None when nothing is recorded for it.
GetDataExtracts(validator, i) ==
    IF i + 1 \in DOMAIN validator.results
    THEN Some(validator.results[i + 1].extract)
    ELSE NoneOpt

\* Validate.get_sundered_data(type=t): the union over the run of the rows
\* classified t.
GetSunderedData(validator, df, t) ==
    IF t = "fail"
    THEN Some(UNION {validator.results[i].extract : i \in DOMAIN validator.results})
    ELSE Some(UNION {df \ validator.results[i].extract : i \in DOMAIN validator.results})

----------------------------------------------------------------------------
\* load_dataframe

\* LoadDataframeFromPath with the two tests in the other order: the extension
\* is tested before the existence of the file.
LoadDataframeFromPath_SuffixFirst(p) ==
    IF Lower(Suffix(p)) \notin {".csv", ".xls", ".xlsx", ".parquet"}
    THEN Raise("ValueError", "UnsupportedFormat")
    ELSE IF ~Exists(p) THEN Raise("FileNotFoundError", "NotFound")
    ELSE Return(FileRows(p))

\* _load_dataframe_from_path: the DataFrame read, or the exception raised.
LoadDataframeFromPath(p) ==
    IF ~Exists(p) THEN Raise("FileNotFoundError", "NotFound")
    ELSE IF Lower(Suffix(p)) = ".csv" THEN Return(FileRows(p))
    ELSE IF Lower(Suffix(p)) \in {".xls", ".xlsx"} THEN Return(FileRows(p))
    ELSE IF Lower(Suffix(p)) = ".parquet" THEN Return(FileRows(p))
    ELSE Raise("ValueError", "UnsupportedFormat")

\* LoadDataframe without the test of lines 96-99: the table read is stored
\* under the identifier whether or not it is taken.
LoadDataframe_Overwrite(dfs, input_path, df_id, hex) ==
    LET df == LoadDataframeFromPath(input_path)
        effective_df_id == EffectiveDfId(df_id, hex)
    IN  IF ~df.ok THEN [ret |-> df, dfs |-> dfs]
        ELSE [ret |-> Return([df_id |-> effective_df_id,
                              shape |-> <<Cardinality(df.value), Len(Columns)>>,
                              columns |-> Columns]),
              dfs |-> Put(dfs, effective_df_id, df.value)]

\* The handler: what it returns or raises, and the Table Registry after it.
LoadDataframe(dfs, input_path, df_id, hex) ==
    LET df == LoadDataframeFromPath(input_path)
        effective_df_id == EffectiveDfId(df_id, hex)
    IN  IF ~df.ok THEN [ret |-> df, dfs |-> dfs]
        ELSE IF effective_df_id \in DOMAIN dfs
        THEN [ret |-> Raise("ValueError", "DuplicateId"), dfs |-> dfs]
        ELSE [ret |-> Return([df_id |-> effective_df_id,
                              shape |-> <<Cardinality(df.value), Len(Columns)>>,
                              columns |-> Columns]),
              dfs |-> Put(dfs, effective_df_id, df.value)]

load_dataframe(input_path, df_id, hex) ==
    \E r \in {LoadDataframe(loaded_dataframes, input_path, df_id, hex)} :
        /\ session = "live"
        /\ SizeOf(r.dfs, active_validators) <= MaxSize
        /\ loaded_dataframes' = r.dfs
        /\ call' = [op |-> "load_dataframe", input_path |-> input_path, df_id |-> df_id]
        /\ ret' = r.ret
        /\ effects' = <<>>
        /\ found' = NoneOpt
        /\ UNCHANGED <<session, active_validators>>

----------------------------------------------------------------------------
\* create_validator

\* The identifiers a caller passes for a pipeline.
ValidatorIdArgs == {None, "validator_00000000"}

\* effective_validator_id
EffectiveValidatorId(validator_id, hex) ==
    IF Truthy(validator_id) THEN validator_id ELSE "validator_" \o hex

\* Optional[Dict]: None and {} are both false, and are both the empty dict here.
TruthyDict(d) == DOMAIN d # {}

\* The optional configuration a caller passes: nothing, thresholds with a
\* wrong keyword, actions with a wrong keyword, final actions with a wrong
\* keyword.
NoConfig ==
    [thresholds_dict |-> EmptyDict, actions_dict |-> EmptyDict,
     final_actions_dict |-> EmptyDict]

ConfigArgs ==
    { NoConfig,
      [thresholds_dict |-> [warn |-> 1], actions_dict |-> EmptyDict,
       final_actions_dict |-> EmptyDict],
      [thresholds_dict |-> EmptyDict, actions_dict |-> [on_fail |-> "log"],
       final_actions_dict |-> EmptyDict],
      [thresholds_dict |-> EmptyDict, actions_dict |-> EmptyDict,
       final_actions_dict |-> [on_fail |-> "log"]] }

\* validator_instance_params: the keywords pb.Validate is called with.
ValidatorInstanceParams(df_id, table_name, validator_label, cfg) ==
    LET actual_table_name ==
            IF Truthy(table_name) THEN table_name ELSE "table_for_" \o df_id
        actual_validator_label ==
            IF Truthy(validator_label) THEN validator_label
            ELSE "Validation for " \o actual_table_name
        base == [ data |-> df_id,
                  tbl_name |-> actual_table_name,
                  label |-> actual_validator_label ]
        with_thresholds ==
            IF TruthyDict(cfg.thresholds_dict)
            THEN Put(base, "thresholds", cfg.thresholds_dict) ELSE base
        with_actions ==
            IF TruthyDict(cfg.actions_dict) /\ ActionsOk(cfg.actions_dict)
            THEN Put(with_thresholds, "actions", cfg.actions_dict)
            ELSE with_thresholds
    IN  IF TruthyDict(cfg.final_actions_dict) /\ FinalActionsOk(cfg.final_actions_dict)
        THEN Put(with_actions, "final_actions", cfg.final_actions_dict)
        ELSE with_actions

\* The messages printed for the action configurations that cannot be built.
CreatePrints(cfg) ==
    (IF TruthyDict(cfg.actions_dict) /\ ~ActionsOk(cfg.actions_dict)
     THEN <<[op |-> "print", what |-> "Could not create pb.Actions"]>> ELSE <<>>)
    \o
    (IF TruthyDict(cfg.final_actions_dict) /\ ~FinalActionsOk(cfg.final_actions_dict)
     THEN <<[op |-> "print", what |-> "Could not create pb.FinalActions"]>> ELSE <<>>)

\* CreateValidator with the two lookups in the other order: the pipeline
\* identifier is tested before the table identifier.
CreateValidator_DuplicateFirst(dfs, vals, df_id, validator_id, cfg, hex) ==
    LET effective_validator_id == EffectiveValidatorId(validator_id, hex)
    IN  IF effective_validator_id \in DOMAIN vals
        THEN [ret |-> Raise("ValueError", "DuplicateId"), vals |-> vals, effects |-> <<>>]
        ELSE IF df_id \notin DOMAIN dfs
        THEN [ret |-> Raise("ValueError", "NotFound"), vals |-> vals, effects |-> <<>>]
        ELSE IF TruthyDict(cfg.thresholds_dict) /\ ~ThresholdsOk(cfg.thresholds_dict)
        THEN [ret |-> Raise("ValueError", "InvalidConfig"), vals |-> vals, effects |-> <<>>]
        ELSE [ret |-> Return([validator_id |-> effective_validator_id]),
              vals |-> Put(vals, effective_validator_id,
                           Validate(ValidatorInstanceParams(df_id, None, None, cfg))),
              effects |-> CreatePrints(cfg)]

\* CreateValidator without the test of lines 166-169: the table identifier
\* is not looked up.
CreateValidator_NoTableCheck(dfs, vals, df_id, validator_id, cfg, hex) ==
    LET effective_validator_id == EffectiveValidatorId(validator_id, hex)
    IN  IF effective_validator_id \in DOMAIN vals
        THEN [ret |-> Raise("ValueError", "DuplicateId"), vals |-> vals, effects |-> <<>>]
        ELSE IF TruthyDict(cfg.thresholds_dict) /\ ~ThresholdsOk(cfg.thresholds_dict)
        THEN [ret |-> Raise("ValueError", "InvalidConfig"), vals |-> vals, effects |-> <<>>]
        ELSE [ret |-> Return([validator_id |-> effective_validator_id]),
              vals |-> Put(vals, effective_validator_id,
                           Validate(ValidatorInstanceParams(df_id, None, None, cfg))),
              effects |-> CreatePrints(cfg)]

\* CreateValidator with the action configurations handled as the thresholds
\* are: a configuration the engine rejects raises ValueError.
CreateValidator_StrictActions(dfs, vals, df_id, validator_id, cfg, hex) ==
    LET effective_validator_id == EffectiveValidatorId(validator_id, hex)
    IN  IF df_id \notin DOMAIN dfs
        THEN [ret |-> Raise("ValueError", "NotFound"), vals |-> vals, effects |-> <<>>]
        ELSE IF effective_validator_id \in DOMAIN vals
        THEN [ret |-> Raise("ValueError", "DuplicateId"), vals |-> vals, effects |-> <<>>]
        ELSE IF \/ TruthyDict(cfg.thresholds_dict) /\ ~ThresholdsOk(cfg.thresholds_dict)
                \/ TruthyDict(cfg.actions_dict) /\ ~ActionsOk(cfg.actions_dict)
                \/ TruthyDict(cfg.final_actions_dict) /\ ~FinalActionsOk(cfg.final_actions_dict)
        THEN [ret |-> Raise("ValueError", "InvalidConfig"), vals |-> vals, effects |-> <<>>]
        ELSE [ret |-> Return([validator_id |-> effective_validator_id]),
              vals |-> Put(vals, effective_validator_id,
                           Validate(ValidatorInstanceParams(df_id, None, None, cfg))),
              effects |-> CreatePrints(cfg)]

\* The handler: what it returns or raises, the Validator Registry after it,
\* and what it printed.
CreateValidator(dfs, vals, df_id, validator_id, cfg, hex) ==
    LET effective_validator_id == EffectiveValidatorId(validator_id, hex)
    IN  IF df_id \notin DOMAIN dfs
        THEN [ret |-> Raise("ValueError", "NotFound"), vals |-> vals, effects |-> <<>>]
        ELSE IF effective_validator_id \in DOMAIN vals
        THEN [ret |-> Raise("ValueError", "DuplicateId"), vals |-> vals, effects |-> <<>>]
        ELSE IF TruthyDict(cfg.thresholds_dict) /\ ~ThresholdsOk(cfg.thresholds_dict)
        THEN [ret |-> Raise("ValueError", "InvalidConfig"), vals |-> vals, effects |-> <<>>]
        ELSE [ret |-> Return([validator_id |-> effective_validator_id]),
              vals |-> Put(vals, effective_validator_id,
                           Validate(ValidatorInstanceParams(df_id, None, None, cfg))),
              effects |-> CreatePrints(cfg)]

create_validator(df_id, validator_id, cfg, hex) ==
    \E r \in {CreateValidator(loaded_dataframes, active_validators,
                             df_id, validator_id, cfg, hex)} :
        /\ session = "live"
        /\ SizeOf(loaded_dataframes, r.vals) <= MaxSize
        /\ active_validators' = r.vals
        /\ call' = [op |-> "create_validator", df_id |-> df_id,
                    validator_id |-> validator_id, cfg |-> cfg]
        /\ ret' = r.ret
        /\ effects' = r.effects
        /\ found' = NoneOpt
        /\ UNCHANGED <<session, loaded_dataframes>>

----------------------------------------------------------------------------
\* add_validation_step

\* The pipeline identifiers of the model: a call names one of them, created
\* or not.
ValidatorIds == {"validator_" \o h : h \in Hex8}

\* supported_validations: the closed table from validation_type to the
\* method of the pipeline it dispatches to.
supported_validations ==
    [ col_vals_lt |-> "col_vals_lt",
      col_vals_gt |-> "col_vals_gt",
      col_vals_lte |-> "col_vals_le",
      col_vals_gte |-> "col_vals_ge",
      col_vals_equal |-> "col_vals_eq",
      col_vals_not_equal |-> "col_vals_ne",
      col_vals_between |-> "col_vals_between",
      col_vals_not_between |-> "col_vals_outside",
      col_vals_in_set |-> "col_vals_in_set",
      col_vals_not_in_set |-> "col_vals_not_in_set",
      col_vals_null |-> "col_vals_null",
      col_vals_not_null |-> "col_vals_not_null",
      col_vals_regex |-> "col_vals_regex",
      col_vals_expr |-> "col_vals_expr",
      col_count_match |-> "col_count_match",
      col_exists |-> "col_exists",
      rows_distinct |-> "rows_distinct",
      rows_complete |-> "rows_complete",
      row_count_match |-> "row_count_match",
      conjointly |-> "conjointly",
      col_schema_match |-> "col_schema_match" ]

\* The steps a caller asks for: two that fit, one on a column the tables
\* lack, a type outside the table, a method name of the engine that is no key
\* of the table, a wrong keyword and a rejected value.
StepArgs ==
    { [validation_type |-> "col_vals_lt", params |-> [columns |-> "score", value |-> 2]],
      [validation_type |-> "col_vals_gt", params |-> [columns |-> "score", value |-> 2]],
      [validation_type |-> "col_vals_lt", params |-> [columns |-> "age", value |-> 2]],
      [validation_type |-> "col_vals_bogus", params |-> [columns |-> "score", value |-> 2]],
      [validation_type |-> "col_vals_le", params |-> [columns |-> "score", value |-> 2]],
      [validation_type |-> "col_vals_lt", params |-> [column |-> "score", value |-> 2]],
      [validation_type |-> "col_vals_lt",
       params |-> [columns |-> "score", value |-> 2, thresholds |-> 0 - 1]] }

EngineCall(method) == [op |-> "engine", method |-> method]

\* validator = app_ctx.active_validators[validator_id]: the pipeline a call
\* names as the call finds it, None when the identifier is unknown.
Found(vals, validator_id) ==
    IF validator_id \in DOMAIN vals THEN Some(vals[validator_id]) ELSE NoneOpt

\* DispatchStep with a branch for actions_config that reports success and
\* leaves out the call of the validation method.
DispatchStep_ActionsSkipCall(vals, validator_id, validation_type, params, actions_config) ==
    LET validation_method == supported_validations[validation_type]
        outcome == StepCall(params)
    IN  IF TruthyDict(actions_config)
        THEN [ret |-> Return([validator_id |-> validator_id,
                              status |-> "Validation step '" \o validation_type
                                         \o "' added successfully."]),
              vals |-> vals, effects |-> <<>>]
        ELSE IF outcome = "TypeError"
        THEN [ret |-> Raise("ValueError", "InvalidParams"), vals |-> vals,
              effects |-> <<EngineCall(validation_method)>>]
        ELSE IF outcome # "ok"
        THEN [ret |-> Raise("RuntimeError", "EngineError"), vals |-> vals,
              effects |-> <<EngineCall(validation_method)>>]
        ELSE [ret |-> Return([validator_id |-> validator_id,
                              status |-> "Validation step '" \o validation_type
                                         \o "' added successfully."]),
              vals |-> [vals EXCEPT ![validator_id] =
                            AppendStep(@, validation_method, params)],
              effects |-> <<EngineCall(validation_method)>>]

\* DispatchStep with the pipeline built anew for the step: the method is
\* called on a fresh pb.Validate of the same table, which is then stored.
DispatchStep_FreshPipeline(vals, validator_id, validation_type, params, actions_config) ==
    LET validation_method == supported_validations[validation_type]
        outcome == StepCall(params)
    IN  IF outcome = "TypeError"
        THEN [ret |-> Raise("ValueError", "InvalidParams"), vals |-> vals,
              effects |-> <<EngineCall(validation_method)>>]
        ELSE IF outcome # "ok"
        THEN [ret |-> Raise("RuntimeError", "EngineError"), vals |-> vals,
              effects |-> <<EngineCall(validation_method)>>]
        ELSE [ret |-> Return([validator_id |-> validator_id,
                              status |-> "Validation step '" \o validation_type
                                         \o "' added successfully."]),
              vals |-> [vals EXCEPT ![validator_id] =
                            AppendStep(Validate(@.params), validation_method, params)],
              effects |-> <<EngineCall(validation_method)>>]

\* DispatchStep with the action configuration applied: its entries are passed
\* to the validation method as keywords, next to those of params.
DispatchStep_ActionsAsParams(vals, validator_id, validation_type, params, actions_config) ==
    LET validation_method == supported_validations[validation_type]
        current_params ==
            [x \in DOMAIN params \cup DOMAIN actions_config |->
                IF x \in DOMAIN actions_config THEN actions_config[x] ELSE params[x]]
        outcome == StepCall(current_params)
    IN  IF outcome = "TypeError"
        THEN [ret |-> Raise("ValueError", "InvalidParams"), vals |-> vals,
              effects |-> <<EngineCall(validation_method)>>]
        ELSE IF outcome # "ok"
        THEN [ret |-> Raise("RuntimeError", "EngineError"), vals |-> vals,
              effects |-> <<EngineCall(validation_method)>>]
        ELSE [ret |-> Return([validator_id |-> validator_id,
                              status |-> "Validation step '" \o validation_type
                                         \o "' added successfully."]),
              vals |-> [vals EXCEPT ![validator_id] =
                            AppendStep(@, validation_method, current_params)],
              effects |-> <<EngineCall(validation_method)>>]

\* The handler of a known pipeline, from the lookup in supported_validations on.
DispatchStep(vals, validator_id, validation_type, params, actions_config) ==
    LET validation_method == supported_validations[validation_type]
        current_params == params
        outcome == StepCall(current_params)
    IN  IF outcome = "TypeError"
        THEN [ret |-> Raise("ValueError", "InvalidParams"), vals |-> vals,
              effects |-> <<EngineCall(validation_method)>>]
        ELSE IF outcome # "ok"
        THEN [ret |-> Raise("RuntimeError", "EngineError"), vals |-> vals,
              effects |-> <<EngineCall(validation_method)>>]
        ELSE [ret |-> Return([validator_id |-> validator_id,
                              status |-> "Validation step '" \o validation_type
                                         \o "' added successfully."]),
              vals |-> [vals EXCEPT ![validator_id] =
                            AppendStep(@, validation_method, current_params)],
              effects |-> <<EngineCall(validation_method)>>]

\* AddValidationStep with a dispatch by reflection: a validation_type that is
\* no key of the table but the name of a method of the pipeline is called.
AddValidationStep_Reflective(vals, validator_id, validation_type, params, actions_config) ==
    IF validator_id \notin DOMAIN vals
    THEN [ret |-> Raise("ValueError", "NotFound"), vals |-> vals, effects |-> <<>>]
    ELSE IF validation_type \in DOMAIN supported_validations
    THEN DispatchStep(vals, validator_id, validation_type, params, actions_config)
    ELSE IF validation_type \in Range(supported_validations) /\ StepCall(params) = "ok"
    THEN [ret |-> Return([validator_id |-> validator_id,
                          status |-> "Validation step '" \o validation_type
                                     \o "' added successfully."]),
          vals |-> [vals EXCEPT ![validator_id] = AppendStep(@, validation_type, params)],
          effects |-> <<EngineCall(validation_type)>>]
    ELSE [ret |-> Raise("ValueError", "UnsupportedType"), vals |-> vals, effects |-> <<>>]

\* The handler: what it returns or raises, the Validator Registry after it,
\* and the engine calls it made.
AddValidationStep(vals, validator_id, validation_type, params, actions_config) ==
    IF validator_id \notin DOMAIN vals
    THEN [ret |-> Raise("ValueError", "NotFound"), vals |-> vals, effects |-> <<>>]
    ELSE IF validation_type \notin DOMAIN supported_validations
    THEN [ret |-> Raise("ValueError", "UnsupportedType"), vals |-> vals, effects |-> <<>>]
    ELSE DispatchStep(vals, validator_id, validation_type, params, actions_config)

add_validation_step(validator_id, validation_type, params, actions_config) ==
    \E r \in {AddValidationStep(active_validators, validator_id, validation_type,
                               params, actions_config)} :
        /\ session = "live"
        /\ SizeOf(loaded_dataframes, r.vals) <= MaxSize
        /\ active_validators' = r.vals
        /\ call' = [op |-> "add_validation_step", validator_id |-> validator_id,
                    validation_type |-> validation_type, params |-> params,
                    actions_config |-> actions_config]
        /\ ret' = r.ret
        /\ effects' = r.effects
        /\ found' = Found(active_validators, validator_id)
        /\ UNCHANGED <<session, loaded_dataframes>>

----------------------------------------------------------------------------
\* The file system the two exporting tools write to.

\* The destinations a caller names.
OutPaths ==
    { MkPath(".", "out", ".csv"), MkPath("sub", "out", ".CSV"),
      MkPath(".", "out", ".txt"), MkPath(".", "", ".csv"),
      MkPath("blocked", "out", ".csv"), MkPath("ro", "out", ".csv") }

\* Path.parent.mkdir(parents=True, exist_ok=True) raises when the parent
\* cannot be made: "blocked" is an existing regular file.
MkdirOk(p) == p.parent # "blocked"

\* DataFrame.to_csv raises when the file cannot be written: "ro" is a
\* directory without write permission.
WriteOk(p) == p.parent # "ro"

\* Path.resolve(): the absolute path.
Resolve(p) == [p EXCEPT !.parent = IF @ = "." THEN "/cwd" ELSE "/cwd/" \o @]

Mkdir(p) == [op |-> "mkdir", path |-> p.parent]

----------------------------------------------------------------------------
\* interrogate_validator

\* The engine's execution fails when a step names a column the table lacks.
InterrogateOk(validator) ==
    \A i \in DOMAIN validator.validation_info :
        validator.validation_info[i].column \in Range(Columns)

\* SaveReport with the parent directories made before the extension is
\* tested.
SaveReport_MkdirFirst(report, p) ==
    LET output_dict == [validation_summary |-> report]
    IN  IF ~MkdirOk(p)
        THEN [ret |-> Raise("OSError", "PersistenceError"), effects |-> <<>>]
        ELSE IF ~EndsWithCsv(p)
        THEN [ret |-> Return(Put(output_dict, "report_save_error",
                                 "Unsupported report file extension. Use .csv.")),
              effects |-> <<Mkdir(p),
                            [op |-> "print", what |-> "Unsupported report file extension"]>>]
        ELSE IF ~WriteOk(p)
        THEN [ret |-> Return(Put(output_dict, "report_save_error",
                                 "Failed to save report")),
              effects |-> <<Mkdir(p), [op |-> "print", what |-> "Failed to save report"]>>]
        ELSE [ret |-> Return(Put(output_dict, "csv_report_saved_to", Resolve(p))),
              effects |-> <<Mkdir(p),
                            [op |-> "report_to_csv", path |-> p, report |-> report],
                            [op |-> "report_progress"]>>]

\* The part of the handler that saves the report, engine execution done:
\* what is returned or raised, and what was done to the file system.
SaveReport(report, p) ==
    LET output_dict == [validation_summary |-> report]
    IN  IF ~EndsWithCsv(p)
        THEN [ret |-> Return(Put(output_dict, "report_save_error",
                                 "Unsupported report file extension. Use .csv.")),
              effects |-> <<[op |-> "print", what |-> "Unsupported report file extension"]>>]
        ELSE IF ~MkdirOk(p)
        THEN [ret |-> Raise("OSError", "PersistenceError"), effects |-> <<>>]
        ELSE IF ~WriteOk(p)
        THEN [ret |-> Return(Put(output_dict, "report_save_error",
                                 "Failed to save report")),
              effects |-> <<Mkdir(p), [op |-> "print", what |-> "Failed to save report"]>>]
        ELSE [ret |-> Return(Put(output_dict, "csv_report_saved_to", Resolve(p))),
              effects |-> <<Mkdir(p),
                            [op |-> "report_to_csv", path |-> p, report |-> report],
                            [op |-> "report_progress"]>>]

\* InterrogateValidator with a cache: a pipeline that was interrogated before
\* is not executed again, the report of its last execution is returned.
InterrogateValidator_Cached(dfs, vals, validator_id, report_file_path) ==
    IF validator_id \notin DOMAIN vals
    THEN [ret |-> Raise("ValueError", "NotFound"), vals |-> vals, effects |-> <<>>]
    ELSE LET validator == vals[validator_id]
         IN  IF ~InterrogateOk(validator)
             THEN [ret |-> Raise("RuntimeError", "EngineError"), vals |-> vals,
                   effects |-> <<EngineCall("interrogate")>>]
             ELSE LET done == IF validator.time_processed THEN validator
                              ELSE Interrogate(validator, dfs[validator.params.data])
                      report == GetJsonReport(done)
                      ran == <<EngineCall("interrogate"), EngineCall("get_json_report")>>
                      after == [vals EXCEPT ![validator_id] = done]
                  IN  IF ~IsSome(report_file_path)
                      THEN [ret |-> Return([validation_summary |-> report]),
                            vals |-> after, effects |-> ran]
                      ELSE LET saved == SaveReport(report, report_file_path[1])
                           IN  [ret |-> saved.ret, vals |-> after,
                                effects |-> ran \o saved.effects]

\* InterrogateValidator with the execution applied to every pipeline of the
\* registry that is bound to the same table, not only to the one named.
InterrogateValidator_SameTable(dfs, vals, validator_id, report_file_path) ==
    IF validator_id \notin DOMAIN vals
    THEN [ret |-> Raise("ValueError", "NotFound"), vals |-> vals, effects |-> <<>>]
    ELSE LET validator == vals[validator_id]
         IN  IF ~InterrogateOk(validator)
             THEN [ret |-> Raise("RuntimeError", "EngineError"), vals |-> vals,
                   effects |-> <<EngineCall("interrogate")>>]
             ELSE LET done == Interrogate(validator, dfs[validator.params.data])
                      report == GetJsonReport(done)
                      ran == <<EngineCall("interrogate"), EngineCall("get_json_report")>>
                      after == [v \in DOMAIN vals |->
                                   IF /\ vals[v].params.data = validator.params.data
                                      /\ InterrogateOk(vals[v])
                                   THEN Interrogate(vals[v], dfs[vals[v].params.data])
                                   ELSE vals[v]]
                  IN  IF ~IsSome(report_file_path)
                      THEN [ret |-> Return([validation_summary |-> report]),
                            vals |-> after, effects |-> ran]
                      ELSE LET saved == SaveReport(report, report_file_path[1])
                           IN  [ret |-> saved.ret, vals |-> after,
                                effects |-> ran \o saved.effects]

\* The handler: report_file_path is an Optional path (None and "" are both
\* false).
InterrogateValidator(dfs, vals, validator_id, report_file_path) ==
    IF validator_id \notin DOMAIN vals
    THEN [ret |-> Raise("ValueError", "NotFound"), vals |-> vals, effects |-> <<>>]
    ELSE LET validator == vals[validator_id]
         IN  IF ~InterrogateOk(validator)
             THEN [ret |-> Raise("RuntimeError", "EngineError"), vals |-> vals,
                   effects |-> <<EngineCall("interrogate")>>]
             ELSE LET done == Interrogate(validator, dfs[validator.params.data])
                      report == GetJsonReport(done)
                      ran == <<EngineCall("interrogate"), EngineCall("get_json_report")>>
                      after == [vals EXCEPT ![validator_id] = done]
                  IN  IF ~IsSome(report_file_path)
                      THEN [ret |-> Return([validation_summary |-> report]),
                            vals |-> after, effects |-> ran]
                      ELSE LET saved == SaveReport(report, report_file_path[1])
                           IN  [ret |-> saved.ret, vals |-> after,
                                effects |-> ran \o saved.effects]

interrogate_validator(validator_id, report_file_path) ==
    \E r \in {InterrogateValidator(loaded_dataframes, active_validators,
                                  validator_id, report_file_path)} :
        /\ session = "live"
        /\ active_validators' = r.vals
        /\ call' = [op |-> "interrogate_validator", validator_id |-> validator_id,
                    report_file_path |-> report_file_path]
        /\ ret' = r.ret
        /\ effects' = r.effects
        /\ found' = Found(active_validators, validator_id)
        /\ UNCHANGED <<session, loaded_dataframes>>

----------------------------------------------------------------------------
\* get_validation_step_output

\* The value of sundered_type when the caller leaves it out.
SunderedTypeDefault == "fail"

\* The step indexes a caller passes.
StepIndexArgs == (0 - 1)..(MaxSize - 2)

\* The calls of the model: every step index and both sundered types with
\* the plain destination, and step index 0 with every other destination.
ExtractArgs ==
    { [output_path |-> MkPath(".", "out", ".csv"), sundered_type |-> "fail",
       step_index |-> i] : i \in {NoneOpt} \cup {Some(k) : k \in StepIndexArgs} }
    \cup
    { [output_path |-> MkPath(".", "out", ".csv"), sundered_type |-> "pass",
       step_index |-> i] : i \in {NoneOpt, Some(0)} }
    \cup
    { [output_path |-> p, sundered_type |-> "fail", step_index |-> Some(0)] :
        p \in OutPaths }
    \cup
    { [output_path |-> MkPath("ro", "out", ".csv"), sundered_type |-> "fail",
       step_index |-> NoneOpt] }

\* ValidationOutput
ValidationOutput(message, output_file) ==
    [status |-> "success", message |-> message, output_file |-> output_file]

\* WriteExtract with the failure of to_csv handled as interrogate_validator
\* handles it: the call returns, with the failure in its message.
WriteExtract_SoftFail(data_extract_df, none_message, p) ==
    IF ~IsSome(data_extract_df) \/ data_extract_df[1] = {}
    THEN [ret |-> Return(ValidationOutput(none_message, NoneOpt)), effects |-> <<>>]
    ELSE IF ~WriteOk(p)
    THEN [ret |-> Return(ValidationOutput("Failed to save data extract", NoneOpt)),
          effects |-> <<>>]
    ELSE [ret |-> Return(ValidationOutput("Data extract saved", Some(Resolve(p)))),
          effects |-> <<[op |-> "to_csv", path |-> p, rows |-> data_extract_df[1]],
                        [op |-> "report_progress"]>>]

\* The end of the try block: what comes of the evidence the engine returned.
\* A failure of to_csv is re-raised as RuntimeError by the except clause.
WriteExtract(data_extract_df, none_message, p) ==
    IF ~IsSome(data_extract_df) \/ data_extract_df[1] = {}
    THEN [ret |-> Return(ValidationOutput(none_message, NoneOpt)), effects |-> <<>>]
    ELSE IF ~WriteOk(p)
    THEN [ret |-> Raise("RuntimeError", "PersistenceError"), effects |-> <<>>]
    ELSE [ret |-> Return(ValidationOutput("Data extract saved", Some(Resolve(p)))),
          effects |-> <<[op |-> "to_csv", path |-> p, rows |-> data_extract_df[1]],
                        [op |-> "report_progress"]>>]

\* ExtractOutput with the step index passed to the engine one higher, as a
\* 1-based step number.
ExtractOutput_OneBased(dfs, validator, p, sundered_type, step_index) ==
    LET warned == IF ~validator.time_processed
                  THEN <<[op |-> "warning", what |-> "Interrogating now."]>> ELSE <<>>
    IN  IF ~MkdirOk(p)
        THEN [ret |-> Raise("RuntimeError", "PersistenceError"), effects |-> warned]
        ELSE LET w == IF IsSome(step_index)
                      THEN WriteExtract(GetDataExtracts(validator, step_index[1] + 1),
                                        "No data extract available", p)
                      ELSE WriteExtract(
                               GetSunderedData(validator, dfs[validator.params.data],
                                               sundered_type),
                               "No sundered data available", p)
                 read == IF IsSome(step_index) THEN EngineCall("get_data_extracts")
                         ELSE EngineCall("get_sundered_data")
             IN  [ret |-> w.ret, effects |-> warned \o <<Mkdir(p), read>> \o w.effects]

\* ExtractOutput with the precedence of its two modes inverted: a
\* sundered_type other than the default selects the sundered mode even when
\* a step index is given.
ExtractOutput_SunderedWins(dfs, validator, p, sundered_type, step_index) ==
    LET warned == IF ~validator.time_processed
                  THEN <<[op |-> "warning", what |-> "Interrogating now."]>> ELSE <<>>
        by_step == IsSome(step_index) /\ sundered_type = "fail"
    IN  IF ~MkdirOk(p)
        THEN [ret |-> Raise("RuntimeError", "PersistenceError"), effects |-> warned]
        ELSE LET w == IF by_step
                      THEN WriteExtract(GetDataExtracts(validator, step_index[1]),
                                        "No data extract available", p)
                      ELSE WriteExtract(
                               GetSunderedData(validator, dfs[validator.params.data],
                                               sundered_type),
                               "No sundered data available", p)
                 read == IF by_step THEN EngineCall("get_data_extracts")
                         ELSE EngineCall("get_sundered_data")
             IN  [ret |-> w.ret, effects |-> warned \o <<Mkdir(p), read>> \o w.effects]

\* The try block of the handler, for a known pipeline and accepted arguments.
ExtractOutput(dfs, validator, p, sundered_type, step_index) ==
    LET warned == IF ~validator.time_processed
                  THEN <<[op |-> "warning", what |-> "Interrogating now."]>> ELSE <<>>
    IN  IF ~MkdirOk(p)
        THEN [ret |-> Raise("RuntimeError", "PersistenceError"), effects |-> warned]
        ELSE LET w == IF IsSome(step_index)
                      THEN WriteExtract(GetDataExtracts(validator, step_index[1]),
                                        "No data extract available", p)
                      ELSE WriteExtract(
                               GetSunderedData(validator, dfs[validator.params.data],
                                               sundered_type),
                               "No sundered data available", p)
                 read == IF IsSome(step_index) THEN EngineCall("get_data_extracts")
                         ELSE EngineCall("get_sundered_data")
             IN  [ret |-> w.ret, effects |-> warned \o <<Mkdir(p), read>> \o w.effects]

\* GetValidationStepOutput with the test of the step index moved into the
\* try block, after the parent directories are made: the ValueError is then
\* re-raised by the except clause.
GetValidationStepOutput_LateIndexCheck(dfs, vals, validator_id, output_path, sundered_type, step_index) ==
    IF validator_id \notin DOMAIN vals
    THEN [ret |-> Raise("ValueError", "NotFound"), vals |-> vals, effects |-> <<>>]
    ELSE IF Lower(Suffix(output_path)) # ".csv"
    THEN [ret |-> Raise("ValueError", "UnsupportedFormat"), vals |-> vals, effects |-> <<>>]
    ELSE IF IsSome(step_index) /\ step_index[1] < 0
    THEN IF MkdirOk(output_path)
         THEN [ret |-> Raise("RuntimeError", "InvalidArgument"), vals |-> vals,
               effects |-> <<Mkdir(output_path)>>]
         ELSE [ret |-> Raise("RuntimeError", "PersistenceError"), vals |-> vals,
               effects |-> <<>>]
    ELSE LET out == ExtractOutput(dfs, vals[validator_id], output_path,
                                  sundered_type, step_index)
         IN  [ret |-> out.ret, vals |-> vals, effects |-> out.effects]

\* The handler: the Validator Registry is only read.
GetValidationStepOutput(dfs, vals, validator_id, output_path, sundered_type, step_index) ==
    IF validator_id \notin DOMAIN vals
    THEN [ret |-> Raise("ValueError", "NotFound"), vals |-> vals, effects |-> <<>>]
    ELSE IF Lower(Suffix(output_path)) # ".csv"
    THEN [ret |-> Raise("ValueError", "UnsupportedFormat"), vals |-> vals, effects |-> <<>>]
    ELSE IF IsSome(step_index) /\ step_index[1] < 0
    THEN [ret |-> Raise("ValueError", "InvalidArgument"), vals |-> vals, effects |-> <<>>]
    ELSE LET out == ExtractOutput(dfs, vals[validator_id], output_path,
                                  sundered_type, step_index)
         IN  [ret |-> out.ret, vals |-> vals, effects |-> out.effects]

get_validation_step_output(validator_id, output_path, sundered_type, step_index) ==
    \E r \in {GetValidationStepOutput(loaded_dataframes, active_validators, validator_id,
                                     output_path, sundered_type, step_index)} :
        /\ session = "live"
        /\ active_validators' = r.vals
        /\ call' = [op |-> "get_validation_step_output", validator_id |-> validator_id,
                    output_path |-> output_path, sundered_type |-> sundered_type,
                    step_index |-> step_index]
        /\ ret' = r.ret
        /\ effects' = r.effects
        /\ found' = Found(active_validators, validator_id)
        /\ UNCHANGED <<session, loaded_dataframes>>

----------------------------------------------------------------------------
\* app_lifespan

\* The state after the lifespan context is entered: a fresh AppContext.
Init ==
    /\ session = "live"
    /\ loaded_dataframes = EmptyDict
    /\ active_validators = EmptyDict
    /\ call = [op |-> "startup"]
    /\ ret = Return(None)
    /\ effects = <<>>
    /\ found = NoneOpt

\* dict.clear(): what is cleared and how many entries it held.
Clear(what, d) == [op |-> "clear", what |-> what, n |-> Cardinality(DOMAIN d)]

\* Shutdown with the second clear() left out: the pipelines stay.
Shutdown_KeepsValidators ==
    /\ session = "live"
    /\ session' = "down"
    /\ loaded_dataframes' = EmptyDict
    /\ active_validators' = active_validators
    /\ call' = [op |-> "shutdown"]
    /\ ret' = Return(None)
    /\ effects' = <<Clear("loaded_dataframes", loaded_dataframes)>>
    /\ found' = NoneOpt

\* The code after the yield: both registries are cleared.
Shutdown ==
    /\ session = "live"
    /\ session' = "down"
    /\ loaded_dataframes' = EmptyDict
    /\ active_validators' = EmptyDict
    /\ call' = [op |-> "shutdown"]
    /\ ret' = Return(None)
    /\ effects' = <<Clear("loaded_dataframes", loaded_dataframes),
                    Clear("active_validators", active_validators)>>
    /\ found' = NoneOpt

\* The process is started again: a new AppContext.
Startup ==
    /\ session = "down"
    /\ session' = "live"
    /\ loaded_dataframes' = EmptyDict
    /\ active_validators' = EmptyDict
    /\ call' = [op |-> "startup"]
    /\ ret' = Return(None)
    /\ effects' = <<>>
    /\ found' = NoneOpt

----------------------------------------------------------------------------
\* The calls of the model.

\* load_dataframe: one table under every kind of identifier, and every path
\* under a given identifier; a missing path without one.
LoadArgs ==
    { [input_path |-> MkPath(".", "a", ".csv"), df_id |-> id] : id \in {None, ""} }
    \cup { [input_path |-> p, df_id |-> "df_00000000"] : p \in InputPaths }
    \cup { [input_path |-> MkPath(".", "missing", ".csv"), df_id |-> None] }

\* create_validator: each table under every kind of identifier, and each
\* configuration for one of them.
CreateArgs ==
    { [df_id |-> d, validator_id |-> id, cfg |-> NoConfig] :
        d \in TableIds, id \in ValidatorIdArgs }
    \cup { [df_id |-> "df_00000000", validator_id |-> None, cfg |-> c] : c \in ConfigArgs }

\* add_validation_step: each step without an action configuration, and two
\* of them with one.
AddStepArgs ==
    { [step |-> s, actions_config |-> EmptyDict] : s \in StepArgs }
    \cup { [step |-> s, actions_config |-> [warning |-> 1]] :
             s \in {t \in StepArgs : t.validation_type \in {"col_vals_gt", "col_vals_bogus"}} }

Next ==
    \/ \E a \in LoadArgs : \E hex \in UuidDraws(a.df_id) :
            load_dataframe(a.input_path, a.df_id, hex)
    \/ \E a \in CreateArgs : \E hex \in UuidDraws(a.validator_id) :
            create_validator(a.df_id, a.validator_id, a.cfg, hex)
    \/ \E id \in ValidatorIds, a \in AddStepArgs :
            add_validation_step(id, a.step.validation_type, a.step.params,
                                a.actions_config)
    \/ \E id \in ValidatorIds, p \in {NoneOpt} \cup {Some(q) : q \in OutPaths} :
            interrogate_validator(id, p)
    \/ \E id \in ValidatorIds, a \in ExtractArgs :
            get_validation_step_output(id, a.output_path, a.sundered_type, a.step_index)
    \/ Shutdown
    \/ Startup

Spec == Init /\ [][Next]_vars

----------------------------------------------------------------------------
\* Properties. Each is about the call handled last: call holds its
\* arguments, ret its outcome, effects what it did, and the registries are
\* those it left (primed in an action formula, where the unprimed ones are
\* those it found).

IsExtract(c) == c.op = "get_validation_step_output"

IsInterrogate(c) == c.op = "interrogate_validator"

IsAddStep(c) == c.op = "add_validation_step"

IsCreate(c) == c.op = "create_validator"

IsLoad(c) == c.op = "load_dataframe"

Raised(r, kind) == ~r.ok /\ r.kind = kind

\* The positions in a list of effects of the calls to one engine method.
EngineCallsAt(e, method) ==
    {i \in DOMAIN e : e[i].op = "engine" /\ e[i].method = method}

\* The positions of the engine calls that read evidence.
ReadsAt(e) == EngineCallsAt(e, "get_data_extracts") \cup EngineCallsAt(e, "get_sundered_data")

\* The positions of the effects of one kind.
EffectsAt(e, op) == {i \in DOMAIN e : e[i].op = op}

\* The extension of a path is not .csv, read either way: as pathlib's suffix
\* or as the ending of the string.
NotCsv(p) == Lower(Suffix(p)) # ".csv" /\ ~EndsWithCsv(p)

\* C1: an extract call that finds its pipeline not interrogated (the call
\* then warns) executes the engine's interrogation in that call, before any
\* evidence is read, and the pipeline is in the interrogated state when the
\* call returns.
C1_ExtractInterrogatesFirst ==
    (IsExtract(call) /\ EffectsAt(effects, "warning") # {})
        => /\ \E i \in EngineCallsAt(effects, "interrogate") :
                  \A j \in ReadsAt(effects) : i < j
           /\ ret.ok => active_validators[call.validator_id].time_processed

\* C2: interrogate of a known pipeline with a report destination, the
\* engine's execution having succeeded, returns the computed report: no
\* failure of persisting it is raised.
C2_ReportAlwaysReturned ==
    (/\ IsInterrogate(call)
     /\ IsSome(call.report_file_path)
     /\ call.validator_id \in DOMAIN active_validators
     /\ ~Raised(ret, "EngineError"))
        => /\ ret.ok
           /\ ret.value.validation_summary
                = GetJsonReport(active_validators[call.validator_id])

\* C3 as stated: a call of either exporting tool with a path whose extension
\* is not .csv does not execute the engine and leaves every pipeline as it
\* was.
C3_RejectedBeforeComputation ==
    [][ (\/ IsExtract(call') /\ NotCsv(call'.output_path)
         \/ /\ IsInterrogate(call')
            /\ IsSome(call'.report_file_path)
            /\ NotCsv(call'.report_file_path[1]))
          => /\ EffectsAt(effects', "engine") = {}
             /\ active_validators' = active_validators ]_vars

\* C3 as amended: extract rejects a destination whose extension is not .csv
\* before it does anything (no effect, every pipeline as it was); interrogate
\* with a destination that does not end in .csv still executes the engine on
\* a known pipeline and returns the report, with an error field, and does
\* nothing to the file system.
C3_ExtractRejectsInterrogateComputes ==
    [][ /\ (IsExtract(call') /\ Lower(Suffix(call'.output_path)) # ".csv")
            => /\ ~ret'.ok
               /\ call'.validator_id \in DOMAIN active_validators
                    => ret'.kind = "UnsupportedFormat"
               /\ effects' = <<>>
               /\ active_validators' = active_validators
        /\ (/\ IsInterrogate(call')
            /\ IsSome(call'.report_file_path)
            /\ ~EndsWithCsv(call'.report_file_path[1])
            /\ call'.validator_id \in DOMAIN active_validators
            /\ ~Raised(ret', "EngineError"))
            => /\ ret'.ok
               /\ "report_save_error" \in DOMAIN ret'.value
               /\ EngineCallsAt(effects', "interrogate") # {}
               /\ active_validators'[call'.validator_id]
                    = Interrogate(active_validators[call'.validator_id],
                                  loaded_dataframes[
                                      active_validators[call'.validator_id].params.data])
               /\ ret'.value.validation_summary
                    = GetJsonReport(active_validators'[call'.validator_id])
               /\ EffectsAt(effects', "mkdir") = {}
               /\ EffectsAt(effects', "report_to_csv") = {} ]_vars

\* C3, witness: interrogate with the destination out.txt has evaluated a
\* step and returned its report with the error field.
C3_Witness ==
    /\ IsInterrogate(call)
    /\ call.report_file_path = Some(MkPath(".", "out", ".txt"))
    /\ ret.ok
    /\ "report_save_error" \in DOMAIN ret.value
    /\ Len(ret.value.validation_summary) > 0

\* C4 as stated: a successful add_step returns a step_index, the number of
\* steps the pipeline held before the call.
C4_ReturnsStepIndex ==
    (IsAddStep(call) /\ ret.ok)
        => /\ "step_index" \in DOMAIN ret.value
           /\ ret.value.step_index
                = Len(active_validators[call.validator_id].validation_info) - 1

\* C4 as amended: a successful add_step leaves the pipeline with exactly one
\* step more, the steps it held before unchanged and in place, the new step
\* last: its 0-based position is the number of steps held before. The call
\* returns the pipeline id and a status string, and no step_index.
C4_AppendsOneStepLast ==
    [][ (IsAddStep(call') /\ ret'.ok)
          => LET old == active_validators[call'.validator_id].validation_info
                 new == active_validators'[call'.validator_id].validation_info
             IN  /\ Len(new) = Len(old) + 1
                 /\ SubSeq(new, 1, Len(old)) = old
                 /\ new[Len(old) + 1].assertion_type
                      = supported_validations[call'.validation_type]
                 /\ new[Len(old) + 1].column = call'.params.columns
                 /\ new[Len(old) + 1].values = call'.params.value
                 /\ DOMAIN ret'.value = {"validator_id", "status"}
                 /\ ret'.value.validator_id = call'.validator_id ]_vars

\* C4, witness: a successful add_step has appended a second, different step.
C4_Witness ==
    /\ IsAddStep(call)
    /\ ret.ok
    /\ Len(active_validators[call.validator_id].validation_info) = 2
    /\ active_validators[call.validator_id].validation_info[1]
         # active_validators[call.validator_id].validation_info[2]

\* The rows of a pipeline's table that fail its step at 0-based position k.
FailingRows(validator, k) ==
    {row \in loaded_dataframes[validator.params.data] :
        ~Passes(row, validator.validation_info[k + 1])}

\* C5: extract with step_index k on an interrogated pipeline, when it
\* returns, has written exactly the rows that failed the step appended
\* (k+1)-th, as the last interrogation recorded them; it has written nothing
\* and names no file when that step was not evaluated or no row failed it.
C5_StepIndexAddressesStep ==
    (/\ IsExtract(call)
     /\ IsSome(call.step_index)
     /\ ret.ok
     /\ active_validators[call.validator_id].time_processed)
        => LET validator == active_validators[call.validator_id]
               k == call.step_index[1]
           IN  IF k + 1 \in DOMAIN validator.results /\ FailingRows(validator, k) # {}
               THEN /\ \E i \in EffectsAt(effects, "to_csv") :
                          /\ effects[i].rows = FailingRows(validator, k)
                          /\ effects[i].path = call.output_path
                    /\ Cardinality(EffectsAt(effects, "to_csv")) = 1
                    /\ ret.value.output_file = Some(Resolve(call.output_path))
               ELSE /\ EffectsAt(effects, "to_csv") = {}
                    /\ ret.value.output_file = NoneOpt

\* C5, witness: extract with step_index 1 has written the rows failing the
\* second step of a pipeline whose first step fails other rows.
C5_Witness ==
    /\ IsExtract(call)
    /\ call.step_index = Some(1)
    /\ ret.ok
    /\ active_validators[call.validator_id].time_processed
    /\ Len(active_validators[call.validator_id].results) = 2
    /\ EffectsAt(effects, "to_csv") # {}
    /\ FailingRows(active_validators[call.validator_id], 0)
         # FailingRows(active_validators[call.validator_id], 1)

\* The extensions load_dataframe reads.
LoadableSuffixes == {".csv", ".xls", ".xlsx", ".parquet"}

C7_CreateUnknownTable ==
    [][ (IsCreate(call') /\ call'.df_id \notin DOMAIN loaded_dataframes)
          => /\ Raised(ret', "NotFound")
             /\ active_validators' = active_validators
             /\ loaded_dataframes' = loaded_dataframes ]_vars

\* C7, witness: create with an absent table_id and a pipeline id that is
\* already taken has failed with NotFound.
C7_Witness ==
    /\ IsCreate(call)
    /\ call.df_id \notin DOMAIN loaded_dataframes
    /\ call.validator_id \in DOMAIN active_validators
    /\ Raised(ret, "NotFound")

\* C8 as stated: a load or create call that supplies an identifier already
\* in its registry fails with DuplicateId and leaves the registries as they
\* were.
C8_DuplicateIdAlways ==
    [][ (\/ IsLoad(call') /\ call'.df_id \in DOMAIN loaded_dataframes
         \/ IsCreate(call') /\ call'.validator_id \in DOMAIN active_validators)
          => /\ Raised(ret', "DuplicateId")
             /\ loaded_dataframes' = loaded_dataframes
             /\ active_validators' = active_validators ]_vars

\* C8 as amended: such a call always fails and leaves both registries as
\* they were; the error is DuplicateId when the other inputs are valid (load:
\* the path exists and has a supported extension; create: the table id is
\* present), and otherwise that of the check made first (NotFound,
\* UnsupportedFormat).
C8_DuplicateIdWhenInputsValid ==
    [][ /\ (IsLoad(call') /\ call'.df_id \in DOMAIN loaded_dataframes)
            => /\ ~ret'.ok
               /\ loaded_dataframes' = loaded_dataframes
               /\ active_validators' = active_validators
               /\ ret'.kind = IF ~Exists(call'.input_path) THEN "NotFound"
                              ELSE IF Lower(Suffix(call'.input_path)) \in LoadableSuffixes
                              THEN "DuplicateId"
                              ELSE "UnsupportedFormat"
        /\ (IsCreate(call') /\ call'.validator_id \in DOMAIN active_validators)
            => /\ ~ret'.ok
               /\ loaded_dataframes' = loaded_dataframes
               /\ active_validators' = active_validators
               /\ ret'.kind = IF call'.df_id \in DOMAIN loaded_dataframes
                              THEN "DuplicateId" ELSE "NotFound" ]_vars

\* C8, witness: a load under an identifier that holds another table has
\* failed with DuplicateId, and the table held is still the other one.
C8_Witness ==
    /\ IsLoad(call)
    /\ Raised(ret, "DuplicateId")
    /\ call.df_id \in DOMAIN loaded_dataframes
    /\ loaded_dataframes[call.df_id] # FileRows(call.input_path)

\* C9: a load or create call that omits the identifier never fails with
\* DuplicateId.
C9_SynthesizedIdIsFresh ==
    (\/ IsLoad(call) /\ ~Truthy(call.df_id)
     \/ IsCreate(call) /\ ~Truthy(call.validator_id))
        => ~Raised(ret, "DuplicateId")

\* Every pipeline is bound to a table of the Table Registry.
BoundTablePresent ==
    \A v \in DOMAIN active_validators :
        active_validators[v].params.data \in DOMAIN loaded_dataframes

\* No step of a live session changes the table a pipeline is bound to, nor
\* that table.
BindingKept ==
    session' = "live" =>
        \A v \in DOMAIN active_validators :
            /\ v \in DOMAIN active_validators'
            /\ active_validators'[v].params.data = active_validators[v].params.data
            /\ active_validators[v].params.data \in DOMAIN loaded_dataframes'
            /\ loaded_dataframes'[active_validators[v].params.data]
                 = loaded_dataframes[active_validators[v].params.data]

\* C10: in every state every pipeline is bound to a table present in the
\* Table Registry, and while the session lives no operation changes the
\* binding of a pipeline.
C10_BindingStable == []BoundTablePresent /\ [][BindingKept]_vars

\* C10, witness: with two tables loaded, a pipeline bound to one of them has
\* been given a step and interrogated while another pipeline is bound to the
\* other table.
C10_Witness ==
    /\ Cardinality(DOMAIN loaded_dataframes) = 2
    /\ \E v, w \in DOMAIN active_validators :
          /\ active_validators[v].params.data # active_validators[w].params.data
          /\ active_validators[v].time_processed

\* q is a prefix of r.
IsPrefix(q, r) == Len(q) <= Len(r) /\ SubSeq(r, 1, Len(q)) = q

\* C11: no step of a live session removes, reorders or replaces a step of a
\* pipeline: the step sequence a pipeline held before any call is a prefix of
\* the one it holds after it, and a call other than a successful add_step on
\* that pipeline leaves the sequence as it was.
C11_StepsAppendOnly ==
    [][ session' = "live"
          => \A v \in DOMAIN active_validators :
                /\ v \in DOMAIN active_validators'
                /\ IsPrefix(active_validators[v].validation_info,
                            active_validators'[v].validation_info)
                /\ ~(IsAddStep(call') /\ ret'.ok /\ call'.validator_id = v)
                     => active_validators'[v].validation_info
                          = active_validators[v].validation_info ]_vars

\* C11, witness: a second step has been appended to a pipeline that had been
\* interrogated with one step.
C11_Witness ==
    /\ IsAddStep(call)
    /\ ret.ok
    /\ IsSome(found)
    /\ found[1].time_processed
    /\ Len(found[1].results) = 1
    /\ Len(active_validators[call.validator_id].validation_info) = 2

\* What get_validation_step_output returns and does for these arguments in
\* the current state (it changes neither registry).
ExtractResult(validator_id, output_path, sundered_type, step_index) ==
    LET r == GetValidationStepOutput(loaded_dataframes, active_validators, validator_id,
                                     output_path, sundered_type, step_index)
    IN  [ret |-> r.ret, effects |-> r.effects]

\* C12: with a step_index, the outcome of extract does not depend on
\* sundered_type: the call handled last returned and did what the same call
\* with sundered_type left out returns and does, and so does every call on a
\* pipeline of the registry, for "pass" and for "fail"; without a step_index
\* and without a sundered_type, extract returns and does what it does with
\* sundered_type "fail".
C12_StepIndexWins ==
    /\ (IsExtract(call) /\ IsSome(call.step_index))
        => [ret |-> ret, effects |-> effects]
             = ExtractResult(call.validator_id, call.output_path,
                             SunderedTypeDefault, call.step_index)
    /\ \A id \in DOMAIN active_validators :
       \A p \in {MkPath(".", "out", ".csv"), MkPath("ro", "out", ".csv")} :
          /\ \A k \in StepIndexArgs : \A t \in {"pass", "fail"} :
                ExtractResult(id, p, t, Some(k))
                  = ExtractResult(id, p, SunderedTypeDefault, Some(k))
          /\ ExtractResult(id, p, SunderedTypeDefault, NoneOpt)
               = ExtractResult(id, p, "fail", NoneOpt)

\* C12, witness: extract with step_index 0 and sundered_type "pass" has
\* written the rows that failed the first step, which are not the rows the
\* run classified as passed.
C12_Witness ==
    /\ IsExtract(call)
    /\ call.sundered_type = "pass"
    /\ call.step_index = Some(0)
    /\ ret.ok
    /\ \E i \in EffectsAt(effects, "to_csv") :
          /\ effects[i].rows = FailingRows(active_validators[call.validator_id], 0)
          /\ Some(effects[i].rows)
               # GetSunderedData(active_validators[call.validator_id],
                     loaded_dataframes[active_validators[call.validator_id].params.data],
                     "pass")

\* C13: extract with a negative step_index on a known pipeline and a
\* destination with the suffix .csv fails with InvalidArgument (a ValueError),
\* having done nothing: no warning, no engine call, no directory, no file,
\* and both registries as they were.
C13_NegativeIndexRejected ==
    [][ (/\ IsExtract(call')
         /\ call'.validator_id \in DOMAIN active_validators
         /\ Lower(Suffix(call'.output_path)) = ".csv"
         /\ IsSome(call'.step_index)
         /\ call'.step_index[1] < 0)
          => /\ Raised(ret', "InvalidArgument")
             /\ ret'.exc = "ValueError"
             /\ effects' = <<>>
             /\ active_validators' = active_validators
             /\ loaded_dataframes' = loaded_dataframes ]_vars

\* C13, witness: extract with step_index -1 has failed with InvalidArgument
\* on a pipeline that holds a step and was never interrogated.
C13_Witness ==
    /\ IsExtract(call)
    /\ call.step_index = Some(0 - 1)
    /\ Raised(ret, "InvalidArgument")
    /\ IsSome(found)
    /\ ~active_validators[call.validator_id].time_processed
    /\ Len(active_validators[call.validator_id].validation_info) > 0

\* C14: extract in step-index mode on a known pipeline, with a .csv
\* destination and a step whose recorded evidence is empty or absent, returns
\* success with no output file and the explanatory message, and writes no
\* file.
C14_EmptyEvidenceIsSuccess ==
    (/\ IsExtract(call)
     /\ IsSome(found)
     /\ Lower(Suffix(call.output_path)) = ".csv"
     /\ IsSome(call.step_index)
     /\ call.step_index[1] >= 0
     /\ GetDataExtracts(found[1], call.step_index[1]) \in {NoneOpt, Some({})})
        => /\ ret.ok
           /\ ret.value.status = "success"
           /\ ret.value.output_file = NoneOpt
           /\ ret.value.message = "No data extract available"
           /\ EffectsAt(effects, "to_csv") = {}

\* C15: an interrogate call that returns, on a pipeline that had been
\* interrogated before, returns a report that lists every step the pipeline
\* holds, starts with the report of the earlier interrogation (same steps,
\* same pass and fail counts) and is longer than it by the number of steps
\* appended since; with no step appended since, the two reports are equal.
C15_ReinterrogationExtends ==
    (IsInterrogate(call) /\ ret.ok /\ IsSome(found) /\ found[1].time_processed)
        => LET first == GetJsonReport(found[1])
               second == ret.value.validation_summary
               appended == Len(found[1].validation_info) - Len(found[1].results)
           IN  /\ IsPrefix(first, second)
               /\ Len(second) = Len(first) + appended
               /\ appended > 0 => second # first
               /\ appended = 0 => second = first
               /\ \A i \in DOMAIN first :
                     /\ second[i].n_passed = first[i].n_passed
                     /\ second[i].n_failed = first[i].n_failed

\* C15, witness: a pipeline interrogated with one step, on which a row
\* failed, has been interrogated again after a second step was appended.
C15_Witness ==
    /\ IsInterrogate(call)
    /\ ret.ok
    /\ IsSome(found)
    /\ found[1].time_processed
    /\ Len(found[1].results) = 1
    /\ found[1].results[1].n_failed > 0
    /\ Len(ret.value.validation_summary) = 2

\* The engine rejects the action or the final-action configuration of a
\* create call.
MalformedActions(c) ==
    \/ TruthyDict(c.cfg.actions_dict) /\ ~ActionsOk(c.cfg.actions_dict)
    \/ TruthyDict(c.cfg.final_actions_dict) /\ ~FinalActionsOk(c.cfg.final_actions_dict)

\* The engine rejects the thresholds of a create call.
MalformedThresholds(c) ==
    TruthyDict(c.cfg.thresholds_dict) /\ ~ThresholdsOk(c.cfg.thresholds_dict)

\* C16 as stated: create with a known table, an identifier that is not
\* taken and a malformed action or final-action configuration fails with
\* InvalidConfig and registers no pipeline.
C16_MalformedActionsRejected ==
    [][ (/\ IsCreate(call')
         /\ call'.df_id \in DOMAIN loaded_dataframes
         /\ ~Raised(ret', "DuplicateId")
         /\ MalformedActions(call'))
          => /\ Raised(ret', "InvalidConfig")
             /\ active_validators' = active_validators ]_vars

\* C16 as amended: create with a known table and an identifier that is not
\* taken fails with InvalidConfig and registers nothing when the thresholds
\* are malformed; with well-formed or no thresholds and a malformed action
\* or final-action configuration it prints a message, succeeds and registers
\* one pipeline, not interrogated and without steps, built without that
\* configuration.
C16_OnlyThresholdsRejected ==
    [][ (/\ IsCreate(call')
         /\ call'.df_id \in DOMAIN loaded_dataframes
         /\ ~Raised(ret', "DuplicateId"))
          => /\ MalformedThresholds(call')
                  => /\ Raised(ret', "InvalidConfig")
                     /\ active_validators' = active_validators
             /\ (MalformedActions(call') /\ ~MalformedThresholds(call'))
                  => /\ ret'.ok
                     /\ ret'.value.validator_id \notin DOMAIN active_validators
                     /\ DOMAIN active_validators'
                          = DOMAIN active_validators \cup {ret'.value.validator_id}
                     /\ \A v \in DOMAIN active_validators :
                           active_validators'[v] = active_validators[v]
                     /\ LET created == active_validators'[ret'.value.validator_id]
                        IN  /\ created.validation_info = <<>>
                            /\ ~created.time_processed
                            /\ created.params.data = call'.df_id
                            /\ DOMAIN created.params
                                 \cap {"actions", "final_actions"} = {}
                     /\ EffectsAt(effects', "print") # {} ]_vars

\* C16, witness: create with a malformed final-action configuration has
\* registered a pipeline next to an existing one.
C16_Witness ==
    /\ IsCreate(call)
    /\ MalformedActions(call)
    /\ TruthyDict(call.cfg.final_actions_dict)
    /\ ret.ok
    /\ ret.value.validator_id \in DOMAIN active_validators
    /\ Cardinality(DOMAIN active_validators) = 2

\* The evidence an extract call asks for, read from the pipeline as the call
\* found it.
Evidence(c, validator) ==
    IF IsSome(c.step_index)
    THEN GetDataExtracts(validator, c.step_index[1])
    ELSE GetSunderedData(validator, loaded_dataframes[validator.params.data],
                         c.sundered_type)

\* C17: an extract call that has evidence to write and cannot write the file
\* fails (RuntimeError) and writes nothing; an extract call that returns
\* success with an output file has written exactly the evidence, which is
\* not empty, to the destination, once, and names the resolved destination.
C17_ExtractWriteFailureIsTotal ==
    /\ (/\ IsExtract(call)
        /\ IsSome(found)
        /\ Lower(Suffix(call.output_path)) = ".csv"
        /\ ~(IsSome(call.step_index) /\ call.step_index[1] < 0)
        /\ Evidence(call, found[1]) \notin {NoneOpt, Some({})}
        /\ ~WriteOk(call.output_path))
        => /\ ~ret.ok
           /\ ret.exc = "RuntimeError"
           /\ EffectsAt(effects, "to_csv") = {}
    /\ (IsExtract(call) /\ ret.ok /\ IsSome(ret.value.output_file))
        => /\ ret.value.status = "success"
           /\ ret.value.output_file = Some(Resolve(call.output_path))
           /\ Cardinality(EffectsAt(effects, "to_csv")) = 1
           /\ \A i \in EffectsAt(effects, "to_csv") :
                 /\ effects[i].path = call.output_path
                 /\ effects[i].rows # {}
                 /\ Some(effects[i].rows) = Evidence(call, found[1])

\* C17, witness: extract of the failed rows of an interrogated pipeline to a
\* destination that cannot be written has failed.
C17_Witness ==
    /\ IsExtract(call)
    /\ ~WriteOk(call.output_path)
    /\ Raised(ret, "PersistenceError")
    /\ IsSome(found)
    /\ found[1].time_processed
    /\ Evidence(call, found[1]) \notin {NoneOpt, Some({})}

\* C18: a load call fails with NotFound when the path does not exist,
\* whatever its extension and whatever identifier is supplied, and with
\* UnsupportedFormat when the path exists and its extension, lower-cased, is
\* none of .csv, .xls, .xlsx, .parquet; a path that exists with one of these
\* extensions fails with neither; a failing load leaves both registries as
\* they were.
C18_LoadFailures ==
    [][ IsLoad(call')
          => /\ ~Exists(call'.input_path) => Raised(ret', "NotFound")
             /\ (/\ Exists(call'.input_path)
                 /\ Lower(Suffix(call'.input_path)) \notin LoadableSuffixes)
                  => Raised(ret', "UnsupportedFormat")
             /\ (/\ Exists(call'.input_path)
                 /\ Lower(Suffix(call'.input_path)) \in LoadableSuffixes)
                  => ret'.ok \/ Raised(ret', "DuplicateId")
             /\ ~ret'.ok => /\ loaded_dataframes' = loaded_dataframes
                            /\ active_validators' = active_validators ]_vars

\* C18, witness: a load of a missing .txt path under an identifier that is
\* taken has failed with NotFound.
C18_Witness ==
    /\ IsLoad(call)
    /\ call.input_path = MkPath(".", "missing", ".txt")
    /\ call.df_id \in DOMAIN loaded_dataframes
    /\ Raised(ret, "NotFound")

\* C19: while the session lives, no call removes, replaces or modifies an
\* entry of the Table Registry, and create, add_step, interrogate and
\* extract, succeeding or failing, leave the Table Registry as it was.
C19_TablesImmutable ==
    [][ session' = "live"
          => /\ \A d \in DOMAIN loaded_dataframes :
                   /\ d \in DOMAIN loaded_dataframes'
                   /\ loaded_dataframes'[d] = loaded_dataframes[d]
             /\ (IsCreate(call') \/ IsAddStep(call') \/ IsInterrogate(call')
                   \/ IsExtract(call'))
                  => loaded_dataframes' = loaded_dataframes ]_vars

\* C19, witness: with two different tables loaded, a pipeline on one of them
\* has been interrogated and its failed rows have been written.
C19_Witness ==
    /\ Cardinality(DOMAIN loaded_dataframes) = 2
    /\ \E d, e \in DOMAIN loaded_dataframes : loaded_dataframes[d] # loaded_dataframes[e]
    /\ IsExtract(call)
    /\ ret.ok
    /\ EffectsAt(effects, "to_csv") # {}

\* C20: an interrogate call on a pipeline that has no step returns, leaves
\* the pipeline interrogated, and its report lists no step.
C20_EmptyPipelineInterrogates ==
    (IsInterrogate(call) /\ IsSome(found) /\ found[1].validation_info = <<>>)
        => /\ ret.ok
           /\ active_validators[call.validator_id].time_processed
           /\ ret.value.validation_summary = <<>>

\* C21: a successful extract on a pipeline whose steps the engine can execute
\* answers from an interrogation over the pipeline's complete current step
\* sequence: it has written exactly the evidence such an interrogation
\* records, and it reports no evidence only when that evidence is empty.
C21_ExtractAnswersFromCurrentSteps ==
    (IsExtract(call) /\ ret.ok /\ IsSome(found) /\ InterrogateOk(found[1]))
        => LET current == Interrogate(found[1],
                                      loaded_dataframes[found[1].params.data])
               evidence == Evidence(call, current)
           IN  IF evidence \in {NoneOpt, Some({})}
               THEN /\ EffectsAt(effects, "to_csv") = {}
                    /\ ret.value.output_file = NoneOpt
               ELSE /\ \E i \in EffectsAt(effects, "to_csv") :
                          Some(effects[i].rows) = evidence
                    /\ ret.value.output_file = Some(Resolve(call.output_path))

\* The action configurations a caller of add_step passes.
ActionsConfigArgs == {a.actions_config : a \in AddStepArgs}

RegistriesEmpty == loaded_dataframes = EmptyDict /\ active_validators = EmptyDict

C24_OtherPipelinesUnchanged ==
    [][ (IsAddStep(call') \/ IsInterrogate(call') \/ IsExtract(call'))
          => \A v \in DOMAIN active_validators :
                v # call'.validator_id
                  => /\ v \in DOMAIN active_validators'
                     /\ active_validators'[v] = active_validators[v] ]_vars

\* C24, witness: of two pipelines bound to the same table, one has been
\* given a step and interrogated, and the other is still not interrogated.
C24_Witness ==
    /\ IsInterrogate(call)
    /\ ret.ok
    /\ Len(active_validators[call.validator_id].results) = 1
    /\ \E v \in DOMAIN active_validators :
          /\ v # call.validator_id
          /\ active_validators[v].params.data
               = active_validators[call.validator_id].params.data
          /\ ~active_validators[v].time_processed

====
